---- MODULE Spec2Model ----
(***************************************************************************)
(* CRUD handlers of the OpenStack Terraform provider, modelled as the      *)
(* sequence of SDK requests and state polls each handler performs.         *)
(*                                                                         *)
(* One handler call runs per behaviour.  Every request sent to OpenStack   *)
(* and every status a poll observes is appended to `log`, so that the      *)
(* order of a handler's steps is a property of the state.  Answers of the  *)
(* cloud (request outcomes, polled statuses) are inputs of the steps.      *)
(* Strings that the code splits or joins are sequences of one-character    *)
(* strings; the empty string is << >>.                                     *)
(***************************************************************************)
EXTENDS Integers, Sequences, FiniteSets, TLC

VARIABLES
    handler,  \* the handler that was called, "idle" before the call
    pc,       \* position inside the handler, "done" after it returned
    id,       \* d.Id(), the resource ID in the Terraform state
    ret,      \* "none" while running, then "ok" (nil) or "err"
    log,      \* requests sent and statuses observed, in order
    polls,    \* polls made by the wait in progress
    tries,    \* attempts made by the resource.Retry in progress
    cfg,      \* d.Get(...): the configured attributes of the call
    attrs,    \* d.Set(...): the attributes the handler computed
    port,     \* security groups attached to the port in the cloud
    member    \* status of the image member in the cloud

vars == <<handler, pc, id, ret, log, polls, tries, cfg, attrs, port, member>>

\* Number of polls a wait makes before its timeout expires.
MaxPolls == 2
\* Number of attempts resource.Retry makes before its timeout expires.
MaxTries == 2

NoCfg == [none |-> TRUE]

Ev(op, arg, out) == [op |-> op, arg |-> arg, out |-> out]

\* Indices of the log entries of operation op with outcome out.
At(op, out) == {i \in 1..Len(log) : log[i].op = op /\ log[i].out = out}
Ops(op) == {i \in 1..Len(log) : log[i].op = op}

(***************************************************************************)
(* Returning from a handler.                                               *)
(***************************************************************************)
\* "fail" returns an error, "return" returns nil, "gone" is CheckDeleted's
\* answer to a 404 (the ID is cleared and nil is returned); anything else is
\* the next position in the handler.
Goto(next) ==
    CASE next = "fail"   -> pc' = "done" /\ ret' = "err" /\ id' = id
      [] next = "return" -> pc' = "done" /\ ret' = "ok" /\ id' = id
      [] next = "gone"   -> pc' = "done" /\ ret' = "ok" /\ id' = << >>
      [] OTHER           -> pc' = next /\ ret' = ret /\ id' = id

(***************************************************************************)
(* resource.StateChangeConf.WaitForState: one refresh.  An error of the    *)
(* refresh function ends the wait with that error, a target state ends it  *)
(* with success, a pending state polls again and any other state is an     *)
(* unexpected-state error.  (Its not-found counting applies to a refresh    *)
(* that returns a nil result without an error, which no refresh function   *)
(* here does: a 404 is reported as state DELETED with a typed result.)      *)
(***************************************************************************)
WaitForState(state, err, pending, target) ==
    IF err THEN "err"
    ELSE IF state \in target THEN "ok"
    ELSE IF state \in pending THEN "again"
    ELSE "err"

\* checkForRetryableError: conflict and server errors are retried.
checkForRetryableError(out) == out = "retryable"

\* CheckDeleted: a 404 clears the ID and is no error, any other error is
\* returned.
CheckDeleted(out) == IF out = "404" THEN "gone" ELSE "fail"

getLbPendingStatuses == {"PENDING_CREATE", "PENDING_UPDATE"}
getLbPendingDeleteStatuses == {"ERROR", "PENDING_UPDATE", "PENDING_DELETE", "ACTIVE"}

\* What a poll of a load-balancer object can report; GETERR is a failed
\* request of the refresh function, DELETED includes a not-found answer.
LbObservations ==
    {"ACTIVE", "PENDING_CREATE", "PENDING_UPDATE", "PENDING_DELETE",
     "ERROR", "DELETED", "GETERR"}

\* Outcomes of a request made inside resource.Retry.
RetryOutcomes == {"ok", "retryable", "404", "fatal"}
\* Outcomes of a plain request.
GetOutcomes == {"ok", "404", "fatal"}

(***************************************************************************)
(* One poll of a wait: ev is the log entry of the poll, res the verdict of  *)
(* WaitForState on it, onOk and onErr where the calling handler goes on.   *)
(* A pending state at the last poll the timeout allows is a timeout error. *)
(***************************************************************************)
WaitStep(ev, res, onOk, onErr) ==
    /\ UNCHANGED <<handler, tries, cfg, attrs, port, member>>
    /\ IF res = "again" /\ polls + 1 < MaxPolls
       THEN /\ log' = Append(log, ev)
            /\ polls' = polls + 1
            /\ UNCHANGED <<pc, ret, id>>
       ELSE /\ log' = IF res = "again"
                      THEN log \o <<ev, Ev(ev.op, ev.arg, "timeout")>>
                      ELSE Append(log, ev)
            /\ polls' = 0
            /\ Goto(IF res = "ok" THEN onOk ELSE onErr)

\* waitForLBV2Pool / waitForLBV2Monitor: poll the object (kind) until it
\* reports target.
waitForLB(kind, target, pending, onOk, onErr) ==
    \E obs \in LbObservations :
        WaitStep(Ev(kind, << >>, obs),
                 WaitForState(obs, obs = "GETERR", pending, {target}), onOk, onErr)

(***************************************************************************)
(* resource.Retry around one request op: a retryable error sends the       *)
(* request again until the timeout, any other error is returned.  out is   *)
(* the answer to this attempt, RetryResult what Retry returns for it once  *)
(* it gives up, and next where the handler goes on with that result.       *)
(***************************************************************************)
RetryResult(out) == IF checkForRetryableError(out) THEN "timeout" ELSE out

RetryStep(op, arg, out, next) ==
    /\ UNCHANGED <<handler, polls, cfg, attrs, port, member>>
    /\ IF checkForRetryableError(out) /\ tries + 1 < MaxTries
       THEN /\ log' = Append(log, Ev(op, arg, out))
            /\ tries' = tries + 1
            /\ UNCHANGED <<pc, ret, id>>
       ELSE /\ log' = IF checkForRetryableError(out)
                      THEN log \o <<Ev(op, arg, out), Ev(op, arg, "timeout")>>
                      ELSE Append(log, Ev(op, arg, out))
            /\ tries' = 0
            /\ Goto(next)

(***************************************************************************)
(* openstack_lb_monitor_v2                                                 *)
(***************************************************************************)
MonitorID == <<"m">>

\* Create without the wait for the parent pool.
CreateFlowNoPoolWait(at, out) ==
    CASE at = "pools.Get"       -> IF out = "ok" THEN "monitors.Create" ELSE "fail"
      [] at = "waitPool"        -> IF out = "ok" THEN "monitors.Create" ELSE "fail"
      [] at = "monitors.Create" -> IF out = "ok" THEN "waitMonitor" ELSE "fail"
      [] at = "waitMonitor"     -> IF out = "ok" THEN "SetId" ELSE "fail"
      [] at = "SetId"           -> "Read"

\* Create that does not check the answer of monitors.Create.
CreateFlowUncheckedCreate(at, out) ==
    CASE at = "pools.Get"       -> IF out = "ok" THEN "waitPool" ELSE "fail"
      [] at = "waitPool"        -> IF out = "ok" THEN "monitors.Create" ELSE "fail"
      [] at = "monitors.Create" -> "waitMonitor"
      [] at = "waitMonitor"     -> IF out = "ok" THEN "SetId" ELSE "fail"
      [] at = "SetId"           -> "Read"

resourceMonitorV2CreateFlow(at, out) ==
    CASE at = "pools.Get"       -> IF out = "ok" THEN "waitPool" ELSE "fail"
      [] at = "waitPool"        -> IF out = "ok" THEN "monitors.Create" ELSE "fail"
      [] at = "monitors.Create" -> IF out = "ok" THEN "waitMonitor" ELSE "fail"
      [] at = "waitMonitor"     -> IF out = "ok" THEN "SetId" ELSE "fail"
      [] at = "SetId"           -> "Read"

\* resourceMonitorV2Read, as the tail of Create and Update.
resourceMonitorV2Read ==
    /\ pc = "Read"
    /\ handler \in {"MonitorCreate", "MonitorUpdate"}
    /\ \E out \in GetOutcomes :
        /\ log' = Append(log, Ev("Read", id, out))
        /\ Goto(IF out = "ok" THEN "return" ELSE CheckDeleted(out))
    /\ UNCHANGED <<handler, polls, tries, cfg, attrs, port, member>>

StartMonitorCreate ==
    /\ handler = "idle"
    /\ handler' = "MonitorCreate"
    /\ pc' = "pools.Get"
    /\ id' = << >>
    /\ cfg' = [pool_id |-> <<"p">>]
    /\ UNCHANGED <<ret, log, polls, tries, attrs, port, member>>

MonitorCreatePoolsGet ==
    /\ handler = "MonitorCreate" /\ pc = "pools.Get"
    /\ \E out \in GetOutcomes :
        /\ log' = Append(log, Ev("pools.Get", cfg.pool_id, out))
        /\ Goto(resourceMonitorV2CreateFlow(pc, out))
    /\ UNCHANGED <<handler, polls, tries, cfg, attrs, port, member>>

MonitorCreateWaitPool ==
    /\ handler = "MonitorCreate" /\ pc = "waitPool"
    /\ waitForLB("pool", "ACTIVE", getLbPendingStatuses,
                 resourceMonitorV2CreateFlow(pc, "ok"), resourceMonitorV2CreateFlow(pc, "err"))

MonitorCreateRequest ==
    /\ handler = "MonitorCreate" /\ pc = "monitors.Create"
    /\ \E out \in RetryOutcomes :
        RetryStep("monitors.Create", cfg.pool_id, out, resourceMonitorV2CreateFlow(pc, RetryResult(out)))

MonitorCreateWaitMonitor ==
    /\ handler = "MonitorCreate" /\ pc = "waitMonitor"
    /\ waitForLB("monitor", "ACTIVE", getLbPendingStatuses,
                 resourceMonitorV2CreateFlow(pc, "ok"), resourceMonitorV2CreateFlow(pc, "err"))

MonitorCreateSetId ==
    /\ handler = "MonitorCreate" /\ pc = "SetId"
    /\ id' = MonitorID
    /\ pc' = resourceMonitorV2CreateFlow(pc, "ok")
    /\ UNCHANGED <<handler, ret, log, polls, tries, cfg, attrs, port, member>>

\* The attributes resourceMonitorV2Update sends when they changed.
MonitorUpdatable ==
    {"url_path", "expected_codes", "delay", "timeout", "max_retries",
     "max_retries_down", "admin_state_up", "name", "http_method"}

\* d.HasChange over the updatable attributes.
MonitorHasChange(changed) == \E a \in MonitorUpdatable : a \in changed

\* Update that does not wait for the monitor before sending the request.
UpdateFlowNoMonitorWait(at, out) ==
    CASE at = "hasChange"       -> IF out = "ok" THEN "pools.Get" ELSE "Read"
      [] at = "pools.Get"       -> IF out = "ok" THEN "monitors.Get" ELSE "fail"
      [] at = "monitors.Get"    -> IF out = "ok" THEN "waitPool" ELSE "fail"
      [] at = "waitPool"        -> IF out = "ok" THEN "monitors.Update" ELSE "fail"
      [] at = "waitMonitor"     -> IF out = "ok" THEN "monitors.Update" ELSE "fail"
      [] at = "monitors.Update" -> IF out = "ok" THEN "waitUpdated" ELSE "fail"
      [] at = "waitUpdated"     -> IF out = "ok" THEN "Read" ELSE "fail"

resourceMonitorV2UpdateFlow(at, out) ==
    CASE at = "hasChange"       -> IF out = "ok" THEN "pools.Get" ELSE "Read"
      [] at = "pools.Get"       -> IF out = "ok" THEN "monitors.Get" ELSE "fail"
      [] at = "monitors.Get"    -> IF out = "ok" THEN "waitPool" ELSE "fail"
      [] at = "waitPool"        -> IF out = "ok" THEN "waitMonitor" ELSE "fail"
      [] at = "waitMonitor"     -> IF out = "ok" THEN "monitors.Update" ELSE "fail"
      [] at = "monitors.Update" -> IF out = "ok" THEN "waitUpdated" ELSE "fail"
      [] at = "waitUpdated"     -> IF out = "ok" THEN "Read" ELSE "fail"

StartMonitorUpdate ==
    /\ handler = "idle"
    /\ handler' = "MonitorUpdate"
    /\ id' = MonitorID
    /\ \E changed \in {{}} \cup {{a} : a \in MonitorUpdatable} \cup {MonitorUpdatable} :
        /\ cfg' = [pool_id |-> <<"p">>, changed |-> changed]
        /\ pc' = resourceMonitorV2UpdateFlow("hasChange",
                     IF MonitorHasChange(changed) THEN "ok" ELSE "none")
    /\ UNCHANGED <<ret, log, polls, tries, attrs, port, member>>

MonitorUpdatePoolsGet ==
    /\ handler = "MonitorUpdate" /\ pc = "pools.Get"
    /\ \E out \in GetOutcomes :
        /\ log' = Append(log, Ev("pools.Get", cfg.pool_id, out))
        /\ Goto(resourceMonitorV2UpdateFlow(pc, out))
    /\ UNCHANGED <<handler, polls, tries, cfg, attrs, port, member>>

MonitorUpdateMonitorsGet ==
    /\ handler = "MonitorUpdate" /\ pc = "monitors.Get"
    /\ \E out \in GetOutcomes :
        /\ log' = Append(log, Ev("monitors.Get", id, out))
        /\ Goto(resourceMonitorV2UpdateFlow(pc, out))
    /\ UNCHANGED <<handler, polls, tries, cfg, attrs, port, member>>

MonitorUpdateWaitPool ==
    /\ handler = "MonitorUpdate" /\ pc = "waitPool"
    /\ waitForLB("pool", "ACTIVE", getLbPendingStatuses,
                 resourceMonitorV2UpdateFlow(pc, "ok"), resourceMonitorV2UpdateFlow(pc, "err"))

MonitorUpdateWaitMonitor ==
    /\ handler = "MonitorUpdate" /\ pc = "waitMonitor"
    /\ waitForLB("monitor", "ACTIVE", getLbPendingStatuses,
                 resourceMonitorV2UpdateFlow(pc, "ok"), resourceMonitorV2UpdateFlow(pc, "err"))

MonitorUpdateRequest ==
    /\ handler = "MonitorUpdate" /\ pc = "monitors.Update"
    /\ \E out \in RetryOutcomes :
        RetryStep("monitors.Update", cfg.changed, out, resourceMonitorV2UpdateFlow(pc, RetryResult(out)))

MonitorUpdateWaitUpdated ==
    /\ handler = "MonitorUpdate" /\ pc = "waitUpdated"
    /\ waitForLB("monitor", "ACTIVE", getLbPendingStatuses,
                 resourceMonitorV2UpdateFlow(pc, "ok"), resourceMonitorV2UpdateFlow(pc, "err"))

\* Delete that returns as soon as the delete request was accepted.
DeleteFlowNoDeletedWait(at, out) ==
    CASE at = "pools.Get"       -> IF out = "ok" THEN "monitors.Get" ELSE "fail"
      [] at = "monitors.Get"    -> IF out = "ok" THEN "waitPool" ELSE CheckDeleted(out)
      [] at = "waitPool"        -> IF out = "ok" THEN "monitors.Delete" ELSE "fail"
      [] at = "monitors.Delete" -> IF out = "ok" THEN "return" ELSE CheckDeleted(out)
      [] at = "waitDeleted"     -> IF out = "ok" THEN "return" ELSE "fail"

resourceMonitorV2DeleteFlow(at, out) ==
    CASE at = "pools.Get"       -> IF out = "ok" THEN "monitors.Get" ELSE "fail"
      [] at = "monitors.Get"    -> IF out = "ok" THEN "waitPool" ELSE CheckDeleted(out)
      [] at = "waitPool"        -> IF out = "ok" THEN "monitors.Delete" ELSE "fail"
      [] at = "monitors.Delete" -> IF out = "ok" THEN "waitDeleted" ELSE CheckDeleted(out)
      [] at = "waitDeleted"     -> IF out = "ok" THEN "return" ELSE "fail"

StartMonitorDelete ==
    /\ handler = "idle"
    /\ handler' = "MonitorDelete"
    /\ pc' = "pools.Get"
    /\ id' = MonitorID
    /\ cfg' = [pool_id |-> <<"p">>]
    /\ UNCHANGED <<ret, log, polls, tries, attrs, port, member>>

MonitorDeletePoolsGet ==
    /\ handler = "MonitorDelete" /\ pc = "pools.Get"
    /\ \E out \in GetOutcomes :
        /\ log' = Append(log, Ev("pools.Get", cfg.pool_id, out))
        /\ Goto(resourceMonitorV2DeleteFlow(pc, out))
    /\ UNCHANGED <<handler, polls, tries, cfg, attrs, port, member>>

MonitorDeleteMonitorsGet ==
    /\ handler = "MonitorDelete" /\ pc = "monitors.Get"
    /\ \E out \in GetOutcomes :
        /\ log' = Append(log, Ev("monitors.Get", id, out))
        /\ Goto(resourceMonitorV2DeleteFlow(pc, out))
    /\ UNCHANGED <<handler, polls, tries, cfg, attrs, port, member>>

MonitorDeleteWaitPool ==
    /\ handler = "MonitorDelete" /\ pc = "waitPool"
    /\ waitForLB("pool", "ACTIVE", getLbPendingStatuses,
                 resourceMonitorV2DeleteFlow(pc, "ok"), resourceMonitorV2DeleteFlow(pc, "err"))

MonitorDeleteRequest ==
    /\ handler = "MonitorDelete" /\ pc = "monitors.Delete"
    /\ \E out \in RetryOutcomes :
        RetryStep("monitors.Delete", id, out, resourceMonitorV2DeleteFlow(pc, RetryResult(out)))

MonitorDeleteWaitDeleted ==
    /\ handler = "MonitorDelete" /\ pc = "waitDeleted"
    /\ waitForLB("monitor", "DELETED", getLbPendingDeleteStatuses,
                 resourceMonitorV2DeleteFlow(pc, "ok"), resourceMonitorV2DeleteFlow(pc, "err"))


(***************************************************************************)
(* openstack_db_instance_v1                                                *)
(***************************************************************************)
InstanceID == <<"i">>

\* Answers of instances.Get inside the refresh function: not found, a failed
\* request, or the status of the instance.
DbGetAnswers == {"404", "GETERR", "BUILD", "ACTIVE", "SHUTOFF", "error", "ERROR"}

\* DatabaseInstanceV1StateRefreshFunc: the state and error it returns for an
\* answer of instances.Get.
DatabaseInstanceV1StateRefreshFunc(get) ==
    CASE get = "404"    -> [state |-> "DELETED", err |-> FALSE]
      [] get = "GETERR" -> [state |-> "", err |-> TRUE]
      [] get = "error"  -> [state |-> "error", err |-> TRUE]
      [] OTHER          -> [state |-> get, err |-> FALSE]

DbCreatePending == {"BUILD"}
DbCreateTarget == {"ACTIVE"}
DbDeletePending == {"ACTIVE", "SHUTOFF"}
DbDeleteTarget == {"DELETED"}

\* stateConf.WaitForState() with the instance refresh function: the log entry
\* holds the answer of Get and the state the refresh reported.
DbWait(pending, target, onOk, onErr) ==
    \E get \in DbGetAnswers :
        LET r == DatabaseInstanceV1StateRefreshFunc(get) IN
        WaitStep(Ev("instance", get, IF r.err THEN "REFRESHERR" ELSE r.state),
                 WaitForState(r.state, r.err, pending, target), onOk, onErr)

\* Create that stores the ID whatever the wait returned.
DbCreateFlowIgnoresWait(at, out) ==
    CASE at = "instances.Create" -> IF out = "ok" THEN "wait" ELSE "fail"
      [] at = "wait"             -> "SetId"
      [] at = "SetId"            -> "Read"

resourceDatabaseInstanceV1CreateFlow(at, out) ==
    CASE at = "instances.Create" -> IF out = "ok" THEN "wait" ELSE "fail"
      [] at = "wait"             -> IF out = "ok" THEN "SetId" ELSE "fail"
      [] at = "SetId"            -> "Read"

StartDbCreate ==
    /\ handler = "idle"
    /\ handler' = "DbCreate"
    /\ pc' = "instances.Create"
    /\ id' = << >>
    /\ cfg' = [name |-> <<"d">>]
    /\ UNCHANGED <<ret, log, polls, tries, attrs, port, member>>

DbCreateRequest ==
    /\ handler = "DbCreate" /\ pc = "instances.Create"
    /\ \E out \in GetOutcomes :
        /\ log' = Append(log, Ev("instances.Create", cfg.name, out))
        /\ Goto(resourceDatabaseInstanceV1CreateFlow(pc, out))
    /\ UNCHANGED <<handler, polls, tries, cfg, attrs, port, member>>

DbCreateWait ==
    /\ handler = "DbCreate" /\ pc = "wait"
    /\ DbWait(DbCreatePending, DbCreateTarget,
              resourceDatabaseInstanceV1CreateFlow(pc, "ok"),
              resourceDatabaseInstanceV1CreateFlow(pc, "err"))

DbCreateSetId ==
    /\ handler = "DbCreate" /\ pc = "SetId"
    /\ id' = InstanceID
    /\ pc' = resourceDatabaseInstanceV1CreateFlow(pc, "ok")
    /\ UNCHANGED <<handler, ret, log, polls, tries, cfg, attrs, port, member>>

\* resourceDatabaseInstanceV1Read, as the tail of Create.
resourceDatabaseInstanceV1Read ==
    /\ handler = "DbCreate" /\ pc = "Read"
    /\ \E out \in GetOutcomes :
        /\ log' = Append(log, Ev("Read", id, out))
        /\ Goto(IF out = "ok" THEN "return" ELSE CheckDeleted(out))
    /\ UNCHANGED <<handler, polls, tries, cfg, attrs, port, member>>

\* Delete that treats a failed delete request like a deleted instance.
DbDeleteFlowForgivesRequest(at, out) ==
    CASE at = "instances.Delete" -> IF out = "ok" THEN "wait" ELSE CheckDeleted(out)
      [] at = "wait"             -> IF out = "ok" THEN "SetId" ELSE "fail"

resourceDatabaseInstanceV1DeleteFlow(at, out) ==
    CASE at = "instances.Delete" -> IF out = "ok" THEN "wait" ELSE "fail"
      [] at = "wait"             -> IF out = "ok" THEN "SetId" ELSE "fail"

StartDbDelete ==
    /\ handler = "idle"
    /\ handler' = "DbDelete"
    /\ pc' = "instances.Delete"
    /\ id' = InstanceID
    /\ cfg' = [name |-> <<"d">>]
    /\ UNCHANGED <<ret, log, polls, tries, attrs, port, member>>

DbDeleteRequest ==
    /\ handler = "DbDelete" /\ pc = "instances.Delete"
    /\ \E out \in GetOutcomes :
        /\ log' = Append(log, Ev("instances.Delete", id, out))
        /\ Goto(resourceDatabaseInstanceV1DeleteFlow(pc, out))
    /\ UNCHANGED <<handler, polls, tries, cfg, attrs, port, member>>

DbDeleteWait ==
    /\ handler = "DbDelete" /\ pc = "wait"
    /\ DbWait(DbDeletePending, DbDeleteTarget,
              resourceDatabaseInstanceV1DeleteFlow(pc, "ok"),
              resourceDatabaseInstanceV1DeleteFlow(pc, "err"))

\* d.SetId("") and return nil.
DbDeleteClearId ==
    /\ handler = "DbDelete" /\ pc = "SetId"
    /\ id' = << >>
    /\ pc' = "done"
    /\ ret' = "ok"
    /\ UNCHANGED <<handler, log, polls, tries, cfg, attrs, port, member>>


(***************************************************************************)
(* Strings and lists                                                       *)
(***************************************************************************)
Range(q) == {q[i] : i \in 1..Len(q)}

\* The sequences over S of at most n elements, and those without repetition.
SeqUpTo(S, n) == UNION {[1..k -> S] : k \in 0..n}
ListsOf(S, n) == {q \in SeqUpTo(S, n) : Cardinality(Range(q)) = Len(q)}

\* strings.Split(str, sep) for a one-character separator.
RECURSIVE Split(_, _)
Split(str, sep) ==
    IF \E i \in 1..Len(str) : str[i] = sep
    THEN LET k == CHOOSE i \in 1..Len(str) :
                      str[i] = sep /\ \A j \in 1..(i - 1) : str[j] # sep
         IN <<SubSeq(str, 1, k - 1)>> \o Split(SubSeq(str, k + 1, Len(str)), sep)
    ELSE <<str>>

\* sliceUnion(a, b): the elements of a, then those of b, each once.
RECURSIVE sliceUnionInto(_, _)
sliceUnionInto(res, rest) ==
    IF rest = << >> THEN res
    ELSE sliceUnionInto(IF Head(rest) \in Range(res) THEN res
                        ELSE Append(res, Head(rest)), Tail(rest))

sliceUnion(a, b) == sliceUnionInto(<< >>, a \o b)

\* d.GetOk(key): the value, and whether it differs from the zero value of
\* its type (false for a bool, "" for a string).
GetOk(v, zero) == [v |-> v, ok |-> v # zero]

(***************************************************************************)
(* openstack_networking_port_secgroup_associate_v2                         *)
(***************************************************************************)
PortID == <<"p">>
SecGroups == {"g1", "g2", "g3"}
\* Longest list of security groups configured or attached.
MaxGroups == 2

\* Create that always replaces the groups of the port.
PortSGAlwaysReplace(enforce, securityGroups, portSecurityGroups) ==
    securityGroups

\* The SecurityGroups of the ports.UpdateOpts that Create sends.
PortSGCreateOpts(enforce, securityGroups, portSecurityGroups) ==
    IF GetOk(enforce, FALSE).ok /\ GetOk(enforce, FALSE).v = TRUE
    THEN securityGroups
    ELSE sliceUnion(portSecurityGroups, securityGroups)

resourceNetworkingPortSecGroupAssociateV2CreateFlow(at, out) ==
    CASE at = "ports.Get"    -> IF out = "ok" THEN "ports.Update" ELSE "fail"
      [] at = "ports.Update" -> IF out = "ok" THEN "SetId" ELSE "fail"
      [] at = "SetId"        -> "Read"

\* The call of Create on a port that has some groups attached.
StartPortSGCreate ==
    /\ handler = "idle"
    /\ handler' = "PortSGCreate"
    /\ pc' = "ports.Get"
    /\ id' = << >>
    /\ \E sgs \in ListsOf(SecGroups, MaxGroups), enforce \in BOOLEAN :
        cfg' = [port_id |-> PortID, security_group_ids |-> sgs, enforce |-> enforce]
    /\ \E attached \in ListsOf(SecGroups, MaxGroups) : port' = attached
    /\ attrs' = [fetched |-> << >>, security_group_ids |-> << >>,
                 all_security_group_ids |-> << >>]
    /\ UNCHANGED <<ret, log, polls, tries, member>>

\* ports.Get: the handler keeps the port it fetched.
PortSGCreateGet ==
    /\ handler = "PortSGCreate" /\ pc = "ports.Get"
    /\ \E out \in GetOutcomes :
        /\ log' = Append(log, Ev("ports.Get", cfg.port_id, out))
        /\ attrs' = IF out = "ok" THEN [attrs EXCEPT !.fetched = port] ELSE attrs
        /\ Goto(resourceNetworkingPortSecGroupAssociateV2CreateFlow(pc, out))
    /\ UNCHANGED <<handler, polls, tries, cfg, port, member>>

\* ports.Update with the options built from enforce; a successful update
\* replaces the groups of the port by the ones sent.
PortSGCreateUpdate ==
    /\ handler = "PortSGCreate" /\ pc = "ports.Update"
    /\ LET sent == PortSGCreateOpts(cfg.enforce, cfg.security_group_ids, attrs.fetched) IN
       \E out \in GetOutcomes :
        /\ log' = Append(log, Ev("ports.Update", sent, out))
        /\ port' = IF out = "ok" THEN sent ELSE port
        /\ Goto(resourceNetworkingPortSecGroupAssociateV2CreateFlow(pc, out))
    /\ UNCHANGED <<handler, polls, tries, cfg, attrs, member>>

PortSGCreateSetId ==
    /\ handler = "PortSGCreate" /\ pc = "SetId"
    /\ id' = cfg.port_id
    /\ pc' = resourceNetworkingPortSecGroupAssociateV2CreateFlow(pc, "ok")
    /\ UNCHANGED <<handler, ret, log, polls, tries, cfg, attrs, port, member>>

\* resourceNetworkingPortSecGroupAssociateV2Read, as the tail of Create.
resourceNetworkingPortSecGroupAssociateV2Read ==
    /\ handler = "PortSGCreate" /\ pc = "Read"
    /\ \E out \in GetOutcomes :
        /\ log' = Append(log, Ev("Read", id, out))
        /\ attrs' = IF out = "ok"
                    THEN [attrs EXCEPT
                            !.security_group_ids =
                                IF GetOk(cfg.enforce, FALSE).ok /\ cfg.enforce = TRUE
                                THEN port ELSE @,
                            !.all_security_group_ids = port]
                    ELSE attrs
        /\ Goto(IF out = "ok" THEN "return" ELSE CheckDeleted(out))
    /\ UNCHANGED <<handler, polls, tries, cfg, port, member>>

(***************************************************************************)
(* openstack_images_image_membership_v2                                    *)
(***************************************************************************)
IdChars == {"a", "b", "/"}
\* Longest resource ID given to resourceImagesImageMembershipV2Delete.
MaxIdLen == 3
MemberStatuses == {"accepted", "rejected", "pending"}

\* resourceImagesShareV2ParseID: "<image>/<member>", anything else an error.
resourceImagesShareV2ParseID(str) ==
    LET parts == Split(str, "/") IN
    IF Len(parts) # 2 THEN [err |-> TRUE, imageID |-> << >>, memberID |-> << >>]
    ELSE [err |-> FALSE, imageID |-> parts[1], memberID |-> parts[2]]

\* Delete that sends the configured status.
MembershipDeleteSendsConfigured(imageID, memberID, status) ==
    [imageID |-> imageID, memberID |-> memberID, Status |-> status]

\* The members.Update request of Delete; status is the configured status.
MembershipDeleteRequest(imageID, memberID, status) ==
    [imageID |-> imageID, memberID |-> memberID, Status |-> "rejected"]

resourceImagesImageMembershipV2DeleteFlow(at, out) ==
    CASE at = "ParseID"        -> IF out = "ok" THEN "members.Update" ELSE "fail"
      [] at = "members.Update" -> IF out = "ok" THEN "return" ELSE CheckDeleted(out)

StartMembershipDelete ==
    /\ handler = "idle"
    /\ handler' = "MembershipDelete"
    /\ pc' = "ParseID"
    /\ \E str \in SeqUpTo(IdChars, MaxIdLen), status \in MemberStatuses :
        /\ id' = str
        /\ cfg' = [id |-> str, status |-> status]
    /\ \E m \in MemberStatuses : member' = m
    /\ UNCHANGED <<ret, log, polls, tries, attrs, port>>

MembershipDeleteParseID ==
    /\ handler = "MembershipDelete" /\ pc = "ParseID"
    /\ Goto(resourceImagesImageMembershipV2DeleteFlow(pc,
                IF resourceImagesShareV2ParseID(id).err THEN "err" ELSE "ok"))
    /\ UNCHANGED <<handler, log, polls, tries, cfg, attrs, port, member>>

\* members.Update: a successful request sets the status of the member.
MembershipDeleteUpdate ==
    /\ handler = "MembershipDelete" /\ pc = "members.Update"
    /\ LET parsed == resourceImagesShareV2ParseID(id)
           req == MembershipDeleteRequest(parsed.imageID, parsed.memberID, cfg.status) IN
       \E out \in GetOutcomes :
        /\ log' = Append(log, Ev("members.Update", req, out))
        /\ member' = IF out = "ok" THEN req.Status ELSE member
        /\ Goto(resourceImagesImageMembershipV2DeleteFlow(pc, out))
    /\ UNCHANGED <<handler, polls, tries, cfg, attrs, port>>


(***************************************************************************)
(* openstack_images_image_ids_v2 (data source)                             *)
(***************************************************************************)
\* Most images one list request returns.
MaxImages == 2

\* Images of the cloud: ID, name and properties (key, value pairs).
ImagePool ==
    {[ID |-> <<"a">>, Name |-> <<"a">>, Properties |-> {}],
     [ID |-> <<"b">>, Name |-> <<"a", "b">>, Properties |-> {<<"k", "v">>}],
     [ID |-> <<"c">>, Name |-> <<"b">>, Properties |-> {<<"k", "w">>, <<"l", "v">>}]}

\* d.Get of an optional string with a schema default: the default when the
\* attribute is not configured ("" stands for not configured).
GetDefault(v, default) == IF v = "" THEN default ELSE v

\* imagesFilterByProperties: the images that carry every requested property
\* with the requested value, in the order given.
imagesFilterByProperties(images, properties) ==
    SelectSeq(images, LAMBDA image : properties \subseteq image.Properties)

\* regexp.MatchString for a pattern without metacharacters: the pattern
\* occurs somewhere in the name.
MatchString(pattern, name) ==
    \E i \in 1..(Len(name) + 1) :
        /\ i + Len(pattern) - 1 <= Len(name)
        /\ SubSeq(name, i, i + Len(pattern) - 1) = pattern

\* imagesFilterByRegex: the images whose name matches, in the order given.
imagesFilterByRegex(images, pattern) ==
    SelectSeq(images, LAMBDA image : MatchString(pattern, image.Name))

\* strings.Join(elems, ",").
RECURSIVE Join(_)
Join(elems) ==
    IF elems = << >> THEN << >>
    ELSE IF Len(elems) = 1 THEN elems[1]
    ELSE elems[1] \o <<",">> \o Join(Tail(elems))

\* hashcode.String rendered with %d: a checksum of the text as a decimal
\* number, here one digit.
RECURSIVE CharSum(_)
CharSum(str) ==
    IF str = << >> THEN 0
    ELSE (CASE Head(str) = "a" -> 1 [] Head(str) = "b" -> 2
            [] Head(str) = "c" -> 3 [] OTHER -> 4) + CharSum(Tail(str))

HashString(str) == <<<<"0", "1", "2", "3", "4", "5", "6", "7", "8", "9">>[(CharSum(str) % 10) + 1]>>

\* Read without the check of name against name_regex.
NameConflictUnchecked(name, name_regex) == FALSE

\* nameOk && nameRegexOk.
NameConflict(name, name_regex) ==
    GetOk(name, << >>).ok /\ GetOk(name_regex, << >>).ok

\* List options that keep sort_key and sort_direction next to sort.
ImageIdsListOptsKeepSortKey(c) ==
    [Name    |-> c.name,
     Status  |-> "active",
     Sort    |-> c.sort,
     SortKey |-> GetDefault(c.sort_key, "name"),
     SortDir |-> GetDefault(c.sort_direction, "asc")]

\* images.ListOpts built by dataSourceImagesImageIdsV2Read.
ImageIdsListOpts(c) ==
    LET sortOk == GetOk(c.sort, "").ok IN
    [Name    |-> c.name,
     Status  |-> "active",
     Sort    |-> c.sort,
     SortKey |-> IF sortOk THEN "" ELSE GetDefault(c.sort_key, "name"),
     SortDir |-> IF sortOk THEN "" ELSE GetDefault(c.sort_direction, "asc")]

dataSourceImagesImageIdsV2ReadFlow(at, out) ==
    CASE at = "check"       -> IF out = "ok" THEN "images.List" ELSE "fail"
      [] at = "images.List" -> IF out = "ok" THEN "return" ELSE "fail"

StartImageIdsRead ==
    /\ handler = "idle"
    /\ handler' = "ImageIdsRead"
    /\ pc' = "check"
    /\ id' = << >>
    /\ \E name \in {<< >>, <<"a">>}, name_regex \in {<< >>, <<"a">>, <<"b">>},
          sort \in {"", "name:desc"}, sort_key \in {"", "size"},
          sort_direction \in {"", "desc"},
          properties \in {{}, {<<"k", "v">>}} :
        cfg' = [name |-> name, name_regex |-> name_regex, sort |-> sort,
                sort_key |-> sort_key, sort_direction |-> sort_direction,
                properties |-> properties]
    /\ attrs' = [set |-> FALSE, ids |-> << >>]
    /\ UNCHANGED <<ret, log, polls, tries, port, member>>

ImageIdsReadCheck ==
    /\ handler = "ImageIdsRead" /\ pc = "check"
    /\ Goto(dataSourceImagesImageIdsV2ReadFlow(pc,
                IF NameConflict(cfg.name, cfg.name_regex) THEN "err" ELSE "ok"))
    /\ UNCHANGED <<handler, log, polls, tries, cfg, attrs, port, member>>

\* Read that applies the name_regex filter to the unfiltered listing.
ImageIdsFilterDropsProperties(listed, c) ==
    IF GetOk(c.name_regex, << >>).ok
    THEN imagesFilterByRegex(listed, c.name_regex)
    ELSE imagesFilterByProperties(listed, c.properties)

\* The filtering of the listing in dataSourceImagesImageIdsV2Read: by
\* properties, then by name_regex when it is set.
ImageIdsFilter(listed, c) ==
    LET byProps == imagesFilterByProperties(listed, c.properties) IN
    IF GetOk(c.name_regex, << >>).ok
    THEN imagesFilterByRegex(byProps, c.name_regex)
    ELSE byProps

\* images.List(...).AllPages(), the two filters, d.SetId and d.Set("ids").
\* The log holds the request and, when it succeeded, the images listed.
ImageIdsReadList ==
    /\ handler = "ImageIdsRead" /\ pc = "images.List"
    /\ \E out \in {"ok", "fatal"}, listed \in ListsOf(ImagePool, MaxImages) :
        LET allImages == ImageIdsFilter(listed, cfg)
            imageIDs == [i \in 1..Len(allImages) |-> allImages[i].ID]
            next == dataSourceImagesImageIdsV2ReadFlow(pc, out)
        IN  /\ out = "fatal" => listed = << >>
            /\ log' = IF out = "ok"
                      THEN log \o <<Ev("images.List", ImageIdsListOpts(cfg), out),
                                    Ev("allImages", listed, out)>>
                      ELSE Append(log, Ev("images.List", ImageIdsListOpts(cfg), out))
            /\ pc' = "done"
            /\ ret' = IF next = "return" THEN "ok" ELSE "err"
            /\ id' = IF next = "return" THEN HashString(Join(imageIDs)) ELSE id
            /\ attrs' = IF next = "return" THEN [set |-> TRUE, ids |-> imageIDs]
                        ELSE attrs
    /\ UNCHANGED <<handler, polls, tries, cfg, port, member>>


(***************************************************************************)
(* openstack_blockstorage_quotaset_v2                                      *)
(***************************************************************************)
\* Longest project_id configured or imported.
MaxProjectLen == 2
Regions == {<<"r">>, <<"s">>}

\* The project_id attribute is a string without validation; an imported ID
\* is passed through as it is.
ProjectIDs == SeqUpTo(IdChars, MaxProjectLen) \ {<< >>}

\* fmt.Sprintf("%s/%s", projectID, region).
QuotasetBuildID(projectID, region) == projectID \o <<"/">> \o region

\* strings.Split(d.Id(), "/")[0].
QuotasetProjectOfID(str) == Split(str, "/")[1]

resourceBlockStorageQuotasetV2CreateFlow(at, out) ==
    CASE at = "quotasets.Update" -> IF out = "ok" THEN "SetId" ELSE "fail"
      [] at = "SetId"            -> "Read"

StartQuotasetCreate ==
    /\ handler = "idle"
    /\ handler' = "QuotasetCreate"
    /\ pc' = "quotasets.Update"
    /\ id' = << >>
    /\ \E projectID \in ProjectIDs, region \in Regions :
        cfg' = [project_id |-> projectID, region |-> region]
    /\ attrs' = [project_id |-> << >>, region |-> << >>]
    /\ UNCHANGED <<ret, log, polls, tries, port, member>>

QuotasetCreateUpdate ==
    /\ handler = "QuotasetCreate" /\ pc = "quotasets.Update"
    /\ \E out \in GetOutcomes :
        /\ log' = Append(log, Ev("quotasets.Update", cfg.project_id, out))
        /\ Goto(resourceBlockStorageQuotasetV2CreateFlow(pc, out))
    /\ UNCHANGED <<handler, polls, tries, cfg, attrs, port, member>>

QuotasetCreateSetId ==
    /\ handler = "QuotasetCreate" /\ pc = "SetId"
    /\ id' = QuotasetBuildID(cfg.project_id, cfg.region)
    /\ pc' = resourceBlockStorageQuotasetV2CreateFlow(pc, "ok")
    /\ UNCHANGED <<handler, ret, log, polls, tries, cfg, attrs, port, member>>

\* Read of a resource whose ID is the legacy "<project_id>" of the project
\* it was created for.
StartQuotasetRead ==
    /\ handler = "idle"
    /\ handler' = "QuotasetRead"
    /\ pc' = "Read"
    /\ \E projectID \in ProjectIDs, region \in Regions :
        /\ id' = projectID
        /\ cfg' = [project_id |-> projectID, region |-> region]
    /\ attrs' = [project_id |-> << >>, region |-> << >>]
    /\ UNCHANGED <<ret, log, polls, tries, port, member>>

\* resourceBlockStorageQuotasetV2Read, called alone or as the tail of Create.
resourceBlockStorageQuotasetV2Read ==
    /\ handler \in {"QuotasetCreate", "QuotasetRead"} /\ pc = "Read"
    /\ LET projectID == QuotasetProjectOfID(id) IN
       \E out \in GetOutcomes :
        /\ log' = Append(log, Ev("quotasets.Get", projectID, out))
        /\ attrs' = IF out = "ok"
                    THEN [project_id |-> projectID, region |-> cfg.region]
                    ELSE attrs
        /\ Goto(IF out = "ok" THEN "return" ELSE CheckDeleted(out))
    /\ UNCHANGED <<handler, polls, tries, cfg, port, member>>


(***************************************************************************)
(* Acceptance-test release gates (provider_test.go)                        *)
(***************************************************************************)
\* Values of OS_BRANCH and of the release argument: the known releases, a
\* release the switch does not know, and the empty (unset) one.
Releases == {"stable/xena", "stable/yoga", "stable/zed", "stable/2023.1",
             "master", "stable/wallaby", ""}

SetReleaseNumber(release) ==
    CASE release = "stable/xena"   -> 1
      [] release = "stable/yoga"   -> 2
      [] release = "stable/zed"    -> 3
      [] release = "stable/2023.1" -> 4
      [] release = "master"        -> 5
      [] OTHER                     -> 0

IsReleasesAbove(currentBranch, release) ==
    SetReleaseNumber(currentBranch) > SetReleaseNumber(release)

StartSkipReleasesAbove ==
    /\ handler = "idle"
    /\ handler' = "testAccSkipReleasesAbove"
    /\ pc' = "IsReleasesAbove"
    /\ \E currentBranch \in Releases, release \in Releases :
        cfg' = [OS_BRANCH |-> currentBranch, release |-> release]
    /\ UNCHANGED <<id, ret, log, polls, tries, attrs, port, member>>

\* t.Skipf when IsReleasesAbove says so, otherwise the test goes on.
testAccSkipReleasesAbove ==
    /\ handler = "testAccSkipReleasesAbove" /\ pc = "IsReleasesAbove"
    /\ LET above == IsReleasesAbove(cfg.OS_BRANCH, cfg.release) IN
        /\ log' = Append(log, Ev("IsReleasesAbove", cfg.release,
                               IF above THEN "true" ELSE "false"))
        /\ ret' = IF above THEN "skipped" ELSE "run"
    /\ pc' = "done"
    /\ UNCHANGED <<handler, id, polls, tries, cfg, attrs, port, member>>

Init ==
    /\ handler = "idle"
    /\ pc = "idle"
    /\ id = << >>
    /\ ret = "none"
    /\ log = << >>
    /\ polls = 0
    /\ tries = 0
    /\ cfg = NoCfg
    /\ attrs = NoCfg
    /\ port = << >>
    /\ member = "absent"

Next ==
    \/ StartMonitorCreate
    \/ MonitorCreatePoolsGet
    \/ MonitorCreateWaitPool
    \/ MonitorCreateRequest
    \/ MonitorCreateWaitMonitor
    \/ MonitorCreateSetId
    \/ resourceMonitorV2Read
    \/ StartMonitorUpdate
    \/ MonitorUpdatePoolsGet
    \/ MonitorUpdateMonitorsGet
    \/ MonitorUpdateWaitPool
    \/ MonitorUpdateWaitMonitor
    \/ MonitorUpdateRequest
    \/ MonitorUpdateWaitUpdated
    \/ StartMonitorDelete
    \/ MonitorDeletePoolsGet
    \/ MonitorDeleteMonitorsGet
    \/ MonitorDeleteWaitPool
    \/ MonitorDeleteRequest
    \/ MonitorDeleteWaitDeleted
    \/ StartDbCreate
    \/ DbCreateRequest
    \/ DbCreateWait
    \/ DbCreateSetId
    \/ resourceDatabaseInstanceV1Read
    \/ StartDbDelete
    \/ DbDeleteRequest
    \/ DbDeleteWait
    \/ DbDeleteClearId
    \/ StartPortSGCreate
    \/ PortSGCreateGet
    \/ PortSGCreateUpdate
    \/ PortSGCreateSetId
    \/ resourceNetworkingPortSecGroupAssociateV2Read
    \/ StartMembershipDelete
    \/ MembershipDeleteParseID
    \/ MembershipDeleteUpdate
    \/ StartImageIdsRead
    \/ ImageIdsReadCheck
    \/ ImageIdsReadList
    \/ StartQuotasetCreate
    \/ QuotasetCreateUpdate
    \/ QuotasetCreateSetId
    \/ StartQuotasetRead
    \/ resourceBlockStorageQuotasetV2Read
    \/ StartSkipReleasesAbove
    \/ testAccSkipReleasesAbove

Spec == Init /\ [][Next]_vars
(***************************************************************************)
(* Properties of openstack_lb_monitor_v2                                   *)
(***************************************************************************)

\* C1: resourceMonitorV2Create sends monitors.Create only after the parent
\* pool was observed ACTIVE; while the pool has not been observed ACTIVE
\* (retrieval failed or the wait failed) no create request is in the log, the
\* resource ID is unset and a finished call has returned an error.
CreateAfterPoolActive ==
    handler = "MonitorCreate" =>
        /\ \A i \in Ops("monitors.Create") : \E j \in At("pool", "ACTIVE") : j < i
        /\ At("pool", "ACTIVE") = {} =>
              /\ Ops("monitors.Create") = {}
              /\ id = << >>
              /\ pc = "done" => ret = "err"

\* A create request was sent after the pool was first seen pending.
CreateSentAfterPendingPool ==
    /\ handler = "MonitorCreate"
    /\ At("pool", "PENDING_UPDATE") # {}
    /\ Ops("monitors.Create") # {}

\* C2: the resource ID is set by Create only when monitors.Create succeeded
\* and the monitor was later observed ACTIVE; a finished Create whose request
\* failed or whose monitor was never observed ACTIVE returned an error and
\* left the ID unset.
IdSetOnlyAfterMonitorActive ==
    handler = "MonitorCreate" =>
        /\ id # << >> =>
              \E i \in At("monitors.Create", "ok") :
                  \E j \in At("monitor", "ACTIVE") : i < j
        /\ (pc = "done" /\ (At("monitors.Create", "ok") = {}
                            \/ At("monitor", "ACTIVE") = {})) =>
              (ret = "err" /\ id = << >>)

\* Create returned successfully with the ID of the monitor.
CreateReturnedWithId ==
    /\ handler = "MonitorCreate"
    /\ pc = "done" /\ ret = "ok"
    /\ id = MonitorID

\* A log entry of Update that reports the failure of a step before the
\* read-back.
UpdateStepFailed(e) ==
    CASE e.op \in {"pools.Get", "monitors.Get"} -> e.out # "ok"
      [] e.op \in {"pool", "monitor"} -> e.out \notin getLbPendingStatuses \cup {"ACTIVE"}
      [] e.op = "monitors.Update" -> e.out \notin {"ok", "retryable"}
      [] OTHER -> FALSE

DeleteAfterPoolActiveUntilDeleted ==
    handler = "MonitorDelete" =>
        /\ \A i \in Ops("monitors.Delete") : \E j \in At("pool", "ACTIVE") : j < i
        /\ (pc = "done" /\ ret = "ok" /\ At("monitors.Delete", "ok") # {}) =>
              /\ log[Len(log)] = Ev("monitor", << >>, "DELETED")
              /\ \A d \in At("monitors.Delete", "ok") : d < Len(log)

\* A Delete returned nil after its request succeeded and the monitor was
\* seen in a pending state first.
DeleteReturnedAfterDeleted ==
    /\ handler = "MonitorDelete"
    /\ pc = "done" /\ ret = "ok"
    /\ At("monitors.Delete", "ok") # {}
    /\ At("monitor", "PENDING_DELETE") # {}
(***************************************************************************)
(* Properties of openstack_db_instance_v1                                  *)
(***************************************************************************)

\* C5: Create stores the instance ID only after a successful create request
\* and after the instance was observed ACTIVE with nothing but BUILD observed
\* before; a failed request, and any poll that reports an error status, an
\* unexpected status, a failed refresh or a timeout, ends the call with an
\* error and the ID unset.
DbIdOnlyAfterActive ==
    handler = "DbCreate" =>
        /\ id # << >> =>
              /\ At("instances.Create", "ok") # {}
              /\ \E a \in At("instance", "ACTIVE") :
                    \A j \in Ops("instance") : j < a => log[j].out = "BUILD"
        /\ At("instances.Create", "ok") = {} /\ pc = "done" =>
              ret = "err" /\ id = << >>
        /\ \A i \in Ops("instance") :
              log[i].out \notin {"BUILD", "ACTIVE"} =>
                  (pc = "done" /\ ret = "err" /\ id = << >>)

\* Create stored the ID after seeing the instance in BUILD and then ACTIVE.
DbCreatedAfterBuild ==
    /\ handler = "DbCreate"
    /\ id = InstanceID
    /\ At("instance", "BUILD") # {}
    /\ pc = "done" /\ ret = "ok"

PortSGCreateSendsGroups ==
    handler = "PortSGCreate" =>
        /\ Cardinality(Ops("ports.Update")) <= 1
        /\ \A i \in Ops("ports.Update") :
              /\ cfg.enforce => log[i].arg = cfg.security_group_ids
              /\ ~cfg.enforce =>
                    /\ Range(log[i].arg) =
                          Range(attrs.fetched) \cup Range(cfg.security_group_ids)
                    /\ Len(log[i].arg) = Cardinality(Range(log[i].arg))
                    /\ log[i].out = "ok" => Range(attrs.fetched) \subseteq Range(port)
              /\ log[i].out = "ok" => port = log[i].arg
              /\ log[i].out # "ok" => port = attrs.fetched
        /\ id # << >> => (id = cfg.port_id /\ At("ports.Update", "ok") # {})

\* With enforce=false a port with a group of its own got a configured group
\* added, and the ID was set.
PortSGAppended ==
    /\ handler = "PortSGCreate"
    /\ ~cfg.enforce
    /\ id = PortID
    /\ Range(attrs.fetched) \ Range(cfg.security_group_ids) # {}
    /\ Range(cfg.security_group_ids) \ Range(attrs.fetched) # {}
    /\ Range(cfg.security_group_ids) \cap Range(attrs.fetched) # {}

(***************************************************************************)
(* Properties of openstack_images_image_membership_v2                      *)
(***************************************************************************)
Slashes(str) == {i \in 1..Len(str) : str[i] = "/"}

\* C8: Delete sends at most one request, a members.Update with status
\* "rejected" for the image before and the member after the single "/" of
\* the ID, whatever status is configured; it is sent when the call finished
\* with such an ID; with any other ID nothing is sent and the call returns an
\* error; the member is never removed and is rejected after a successful
\* request.
MembershipDeleteRejects ==
    handler = "MembershipDelete" =>
        /\ Len(log) <= 1
        /\ \A i \in 1..Len(log) :
              /\ log[i].op = "members.Update"
              /\ Cardinality(Slashes(cfg.id)) = 1
              /\ \A k \in Slashes(cfg.id) :
                    log[i].arg = [imageID |-> SubSeq(cfg.id, 1, k - 1),
                                  memberID |-> SubSeq(cfg.id, k + 1, Len(cfg.id)),
                                  Status |-> "rejected"]
              /\ log[i].out = "ok" => member = "rejected"
        /\ member \in MemberStatuses
        /\ pc = "done" =>
              IF Cardinality(Slashes(cfg.id)) = 1
              THEN Len(log) = 1
              ELSE log = << >> /\ ret = "err"

\* Delete of a membership configured as accepted sent its request.
MembershipRejectedThoughAccepted ==
    /\ handler = "MembershipDelete"
    /\ cfg.status = "accepted"
    /\ cfg.id = <<"a", "/", "b">>
    /\ At("members.Update", "ok") # {}
    /\ pc = "done" /\ ret = "ok"
(***************************************************************************)
(* Properties of the openstack_images_image_ids_v2 data source             *)
(***************************************************************************)

\* C9: with name and name_regex both set, Read sends no list request, sets
\* neither the ID nor ids, and returns an error.
NameAndRegexRejected ==
    (handler = "ImageIdsRead" /\ cfg.name # << >> /\ cfg.name_regex # << >>) =>
        /\ log = << >>
        /\ id = << >>
        /\ ~attrs.set
        /\ pc = "done" => ret = "err"

\* Read returned for a configuration with both name and name_regex.
NameAndRegexReturned ==
    /\ handler = "ImageIdsRead"
    /\ cfg.name # << >> /\ cfg.name_regex # << >>
    /\ pc = "done"

\* C10: the list request carries sort and empty SortKey and SortDir when
\* sort is set, and otherwise an empty Sort with sort_key and sort_direction,
\* "name" and "asc" when these are not configured.
OnlySortOrSortKey ==
    handler = "ImageIdsRead" =>
        \A i \in Ops("images.List") :
            LET o == log[i].arg IN
            IF cfg.sort # ""
            THEN o.Sort = cfg.sort /\ o.SortKey = "" /\ o.SortDir = ""
            ELSE /\ o.Sort = ""
                 /\ o.SortKey = (IF cfg.sort_key = "" THEN "name" ELSE cfg.sort_key)
                 /\ o.SortDir = (IF cfg.sort_direction = "" THEN "asc"
                                 ELSE cfg.sort_direction)

\* A list request was sent for a configuration with sort and sort_key.
ListedWithSortAndSortKey ==
    /\ handler = "ImageIdsRead"
    /\ cfg.sort # "" /\ cfg.sort_key = "size"
    /\ Ops("images.List") # {}
\* Whether the image carries all requested properties and, when name_regex
\* is set, has a matching name.
ImageRequested(image) ==
    /\ \A kv \in cfg.properties : kv \in image.Properties
    /\ cfg.name_regex # << >> => MatchString(cfg.name_regex, image.Name)

\* C11: when the list request succeeded, Read returns nil and ids holds, in
\* the order of the listing and with nothing else, the IDs of the listed
\* images that carry all requested properties and match name_regex when it is
\* set (empty when there is none); the request asked for status active.
IdsAreRequestedListed ==
    (handler = "ImageIdsRead" /\ At("images.List", "ok") # {}) =>
        \A i \in Ops("allImages") :
            LET listed == log[i].arg
                wanted == {k \in 1..Len(listed) : ImageRequested(listed[k])}
            IN  /\ pc = "done" /\ ret = "ok" /\ attrs.set
                /\ \A r \in Ops("images.List") : log[r].arg.Status = "active"
                /\ Len(attrs.ids) = Cardinality(wanted)
                /\ \E f \in [1..Len(attrs.ids) -> wanted] :
                      /\ \A j, k \in 1..Len(attrs.ids) : j < k => f[j] < f[k]
                      /\ \A k \in 1..Len(attrs.ids) : attrs.ids[k] = listed[f[k]].ID
                /\ wanted = {} => attrs.ids = << >>

\* Two listed images matched name_regex, one did not carry the properties
\* asked for: ids holds the one left.
IdsFilteredByBoth ==
    /\ handler = "ImageIdsRead"
    /\ cfg.name_regex = <<"b">> /\ cfg.properties # {}
    /\ \E i \in Ops("allImages") :
          /\ Len(log[i].arg) = 2
          /\ log[i].arg[1].ID = <<"c">> /\ log[i].arg[2].ID = <<"b">>
    /\ attrs.ids = <<<<"b">>>>
(***************************************************************************)
(* Properties of openstack_blockstorage_quotaset_v2                        *)
(***************************************************************************)

\* C12: the ID Create writes is "<project_id>/<region>", and Read, for that
\* ID and for a legacy ID "<project_id>", fetches the quota of the project
\* the resource was created for.
QuotasetReadsSameProject ==
    handler \in {"QuotasetCreate", "QuotasetRead"} =>
        /\ (handler = "QuotasetCreate" /\ id # << >>) =>
              id = cfg.project_id \o <<"/">> \o cfg.region
        /\ \A i \in Ops("quotasets.Get") : log[i].arg = cfg.project_id
(***************************************************************************)
(* Properties of the release gates                                         *)
(***************************************************************************)

\* C13: with OS_BRANCH = master, IsReleasesAbove is true for every target
\* release, so testAccSkipReleasesAbove skips the test.
AlwaysSkippedOnMaster ==
    (handler = "testAccSkipReleasesAbove" /\ cfg.OS_BRANCH = "master"
        /\ pc = "done") =>
        /\ \A i \in Ops("IsReleasesAbove") : log[i].out = "true"
        /\ ret = "skipped"
====
